---- MODULE Spec2Model ----
(***************************************************************************)
(* Model of the SwapShikshak match engine (server/utils/matching.ts and    *)
(* server/utils/distance.ts) and of the routes and the in-memory storage   *)
(* that feed it (server/routes.ts, server/storage.ts).                     *)
(*                                                                         *)
(* Representation.                                                         *)
(*  - JavaScript strings are sequences of one-character strings, so that   *)
(*    toLowerCase, the whitespace replacement and parseFloat are computed   *)
(*    character by character.  null and "" are both the empty sequence:    *)
(*    the engine only ever tests these fields for truthiness.              *)
(*  - JavaScript numbers are tagged records: Num(n), NaN, Undefined.       *)
(*    Latitudes and longitudes are counted in 1e-4 degrees, distances in   *)
(*    metres (rounded down), maxDistance in kilometres as in the source.   *)
(***************************************************************************)
EXTENDS Integers, Sequences, FiniteSets, TLC

VARIABLES
    allTeachers,        \* the roster a match route passes to findMatches
    subject,            \* the roster index of the subject of the last call
    matches,            \* the list the last call returned
    pc,                 \* "idle" before the first call, "done" after a call
    users,              \* MemStorage.users, in insertion order
    storedTeachers,     \* MemStorage.teachers, in insertion order
    transferRequests,   \* MemStorage.transferRequests, in insertion order
    handlers,           \* the route handlers suspended at an await
    response            \* the last response a handler sent

engineVars == <<allTeachers, subject, matches, pc>>

storageVars == <<users, storedTeachers, transferRequests>>

routeVars == <<handlers, response>>

vars == <<allTeachers, subject, matches, pc, users, storedTeachers, transferRequests, handlers, response>>

-----------------------------------------------------------------------------
(* JavaScript values *)

Num(n) == [t |-> "num", v |-> n]

NaN == [t |-> "nan", v |-> 0]

Undefined == [t |-> "undefined", v |-> 0]

Null == [t |-> "null", v |-> 0]

IsNum(x) == x.t = "num"

\* ToNumber as applied by the arithmetic and relational operators.
ToNumber(x) == IF x.t = "null" THEN Num(0) ELSE IF x.t = "num" THEN x ELSE NaN

\* Truthiness of a number-or-undefined value: 0, NaN, undefined, null are falsy.
TruthyNum(x) == x.t = "num" /\ x.v # 0

\* Truthiness of a string-or-null value.
TruthyStr(s) == Len(s) > 0

\* a - b once both operands are numbers or NaN.
SubNumbers(x, y) == IF IsNum(x) /\ IsNum(y) THEN Num(x.v - y.v) ELSE NaN

Sub(a, b) == SubNumbers(ToNumber(a), ToNumber(b))

\* a < b and a <= b are false as soon as one side is NaN.
LtNumbers(x, y) == IsNum(x) /\ IsNum(y) /\ x.v < y.v

Lt(a, b) == LtNumbers(ToNumber(a), ToNumber(b))

LeNumbers(x, y) == IsNum(x) /\ IsNum(y) /\ x.v <= y.v

Le(a, b) == LeNumbers(ToNumber(a), ToNumber(b))

-----------------------------------------------------------------------------
(* String conversions *)

UpperCase == <<"A", "B", "C", "D", "E", "F", "G", "H", "I", "J", "K", "L", "M",
               "N", "O", "P", "Q", "R", "S", "T", "U", "V", "W", "X", "Y", "Z">>

LowerCase == <<"a", "b", "c", "d", "e", "f", "g", "h", "i", "j", "k", "l", "m",
               "n", "o", "p", "q", "r", "s", "t", "u", "v", "w", "x", "y", "z">>

WhiteSpace == {" ", "\t", "\n"}

Digits == <<"0", "1", "2", "3", "4", "5", "6", "7", "8", "9">>

IsDigit(c) == \E i \in 1..Len(Digits) : Digits[i] = c

DigitVal(c) == (CHOOSE i \in 1..Len(Digits) : Digits[i] = c) - 1

toLowerCaseChar(c) ==
    IF \E i \in 1..Len(UpperCase) : UpperCase[i] = c
    THEN LowerCase[CHOOSE i \in 1..Len(UpperCase) : UpperCase[i] = c]
    ELSE c

toLowerCase(s) == [i \in 1..Len(s) |-> toLowerCaseChar(s[i])]

RECURSIVE SkipWhiteSpace(_)
SkipWhiteSpace(s) ==
    IF s # <<>> /\ Head(s) \in WhiteSpace THEN SkipWhiteSpace(Tail(s)) ELSE s

\* s.replace(/\s+/g, '_'): every maximal run of whitespace becomes one '_'.
RECURSIVE replaceWhiteSpace(_)
replaceWhiteSpace(s) ==
    IF s = <<>> THEN <<>>
    ELSE IF Head(s) \in WhiteSpace
         THEN <<"_">> \o replaceWhiteSpace(SkipWhiteSpace(Tail(s)))
         ELSE <<Head(s)>> \o replaceWhiteSpace(Tail(s))

RECURSIVE TakeDigits(_)
TakeDigits(s) ==
    IF s # <<>> /\ IsDigit(Head(s)) THEN <<Head(s)>> \o TakeDigits(Tail(s)) ELSE <<>>

RECURSIVE DigitsToNat(_)
DigitsToNat(ds) ==
    IF ds = <<>> THEN 0
    ELSE 10 * DigitsToNat(SubSeq(ds, 1, Len(ds) - 1)) + DigitVal(ds[Len(ds)])

\* parseFloat: leading whitespace, an optional sign, the longest decimal
\* prefix; NaN when no digit is found.  The value is in 1e-4 units (the
\* coordinate strings of the model carry at most four decimals).
DecimalValue(negative, intDs, fracDs) ==
    IF intDs = <<>> /\ fracDs = <<>> THEN NaN
    ELSE Num((IF negative THEN 0 - 1 ELSE 1)
             * (10000 * DigitsToNat(intDs)
                + DigitsToNat(SubSeq(fracDs \o <<"0", "0", "0", "0">>, 1, 4))))

FractionDigits(rest) ==
    IF rest # <<>> /\ Head(rest) = "." THEN TakeDigits(Tail(rest)) ELSE <<>>

ParseDecimal(negative, u, intDs) ==
    DecimalValue(negative, intDs, FractionDigits(SubSeq(u, Len(intDs) + 1, Len(u))))

ParseUnsigned(negative, u) == ParseDecimal(negative, u, TakeDigits(u))

ParseSigned(t) ==
    IF t # <<>> /\ Head(t) \in {"-", "+"}
    THEN ParseUnsigned(Head(t) = "-", Tail(t))
    ELSE ParseUnsigned(FALSE, t)

parseFloat(s) == ParseSigned(SkipWhiteSpace(s))

-----------------------------------------------------------------------------
(* distance.ts *)

\* The district table: <<key, lat, lng>>, lat and lng in 1e-4 degrees.
districtCoordinates ==
    { <<<<"p", "a", "t", "n", "a">>, 255941, 851376>>,
      <<<<"g", "a", "y", "a">>, 247955, 850002>>,
      <<<<"m", "u", "z", "a", "f", "f", "a", "r", "p", "u", "r">>, 261209, 853647>>,
      <<<<"d", "a", "r", "b", "h", "a", "n", "g", "a">>, 261542, 858918>>,
      <<<<"b", "h", "a", "g", "a", "l", "p", "u", "r">>, 252425, 869842>>,
      <<<<"s", "a", "h", "a", "r", "s", "a">>, 258781, 865975>>,
      <<<<"p", "u", "r", "n", "i", "a">>, 257776, 874753>>,
      <<<<"k", "a", "t", "i", "h", "a", "r">>, 255386, 875819>>,
      <<<<"b", "e", "g", "u", "s", "a", "r", "a", "i">>, 254182, 861272>>,
      <<<<"s", "a", "m", "a", "s", "t", "i", "p", "u", "r">>, 258538, 857800>>,
      <<<<"c", "h", "a", "p", "r", "a">>, 257805, 847477>>,
      <<<<"s", "i", "t", "a", "m", "a", "r", "h", "i">>, 265947, 854897>>,
      <<<<"m", "a", "d", "h", "u", "b", "a", "n", "i">>, 263489, 860644>>,
      <<<<"s", "u", "p", "a", "u", "l">>, 261266, 866025>>,
      <<<<"a", "r", "a", "r", "i", "a">>, 261477, 875081>>,
      <<<<"k", "i", "s", "h", "a", "n", "g", "a", "n", "j">>, 261086, 879542>>,
      <<<<"a", "u", "r", "a", "n", "g", "a", "b", "a", "d">>, 247521, 843742>>,
      <<<<"j", "e", "h", "a", "n", "a", "b", "a", "d">>, 252078, 849869>>,
      <<<<"n", "a", "l", "a", "n", "d", "a">>, 251372, 854441>>,
      <<<<"n", "a", "w", "a", "d", "a">>, 248813, 855431>>,
      <<<<"r", "o", "h", "t", "a", "s">>, 249565, 840134>>,
      <<<<"b", "u", "x", "a", "r">>, 255621, 839730>>,
      <<<<"k", "a", "i", "m", "u", "r">>, 250408, 836122>>,
      <<<<"g", "o", "p", "a", "l", "g", "a", "n", "j">>, 264676, 844358>>,
      <<<<"s", "i", "w", "a", "n">>, 262194, 843608>>,
      <<<<"s", "a", "r", "a", "n">>, 259222, 847411>>,
      <<<<"v", "a", "i", "s", "h", "a", "l", "i">>, 257207, 851303>>,
      <<<<"e", "a", "s", "t", "_", "c", "h", "a", "m", "p", "a", "r", "a", "n">>, 266447, 849259>>,
      <<<<"w", "e", "s", "t", "_", "c", "h", "a", "m", "p", "a", "r", "a", "n">>, 272307, 842595>>,
      <<<<"s", "h", "e", "o", "h", "a", "r">>, 265189, 852961>>,
      <<<<"m", "a", "d", "h", "e", "p", "u", "r", "a">>, 259215, 867906>>,
      <<<<"k", "h", "a", "g", "a", "r", "i", "a">>, 255017, 864751>>,
      <<<<"m", "u", "n", "g", "e", "r">>, 253766, 864731>>,
      <<<<"l", "a", "k", "h", "i", "s", "a", "r", "a", "i">>, 251726, 860920>>,
      <<<<"s", "h", "e", "i", "k", "h", "p", "u", "r", "a">>, 251394, 858500>>,
      <<<<"j", "a", "m", "u", "i">>, 249267, 862264>>,
      <<<<"b", "a", "n", "k", "a">>, 248881, 869219>>,
      <<<<"a", "r", "w", "a", "l">>, 252520, 846819>> }

DistrictKeys == {row[1] : row \in districtCoordinates}

\* Property names every object literal inherits from Object.prototype and
\* that survive toLowerCase: districtCoordinates[key] is a truthy
\* non-coordinate object for them (the Object function, Object.prototype).
ObjectPrototypeKeys ==
    { <<"c", "o", "n", "s", "t", "r", "u", "c", "t", "o", "r">>,
      <<"_", "_", "p", "r", "o", "t", "o", "_", "_">> }

CoordsOfRow(row) == [kind |-> "coords", lat |-> Num(row[2]), lng |-> Num(row[3])]

\* districtCoordinates[normalized] || null
LookupDistrict(normalized) ==
    IF normalized \in DistrictKeys
    THEN CoordsOfRow(CHOOSE r \in districtCoordinates : r[1] = normalized)
    ELSE IF normalized \in ObjectPrototypeKeys
         THEN [kind |-> "inherited", lat |-> Undefined, lng |-> Undefined]
         ELSE [kind |-> "null", lat |-> Undefined, lng |-> Undefined]

getDistrictCoordinates(district) ==
    LookupDistrict(replaceWhiteSpace(toLowerCase(district)))

\* Truthiness of the value getDistrictCoordinates returns.
TruthyCoords(c) == c.kind # "null"

\* The haversine formula evaluated at double precision for the coordinate
\* pairs the model's profiles can produce, in metres rounded down:
\* <<<<lat1, lon1, lat2, lon2>>, metres>>.

HaversineTable ==
    { <<<<255941, 851376, 255941, 851376>>, 0>>,
      <<<<255941, 851376, 247955, 850002>>, 89869>>,
      <<<<255941, 851376, 266447, 849259>>, 118717>>,
      <<<<255941, 851376, 129716, 775946>>, 1610334>>,
      <<<<255941, 851376, 173850, 784867>>, 1142582>>,
      <<<<255941, 851376, 247500, 850100>>, 94733>>,
      <<<<255941, 851376, 246961, 849869>>, 100998>>,
      <<<<255941, 851376, 0, 850002>>, 2845972>>,
      <<<<247955, 850002, 255941, 851376>>, 89869>>,
      <<<<247955, 850002, 247955, 850002>>, 0>>,
      <<<<247955, 850002, 266447, 849259>>, 205756>>,
      <<<<247955, 850002, 129716, 775946>>, 1527301>>,
      <<<<247955, 850002, 173850, 784867>>, 1065199>>,
      <<<<247955, 850002, 247500, 850100>>, 5155>>,
      <<<<247955, 850002, 246961, 849869>>, 11134>>,
      <<<<247955, 850002, 0, 850002>>, 2757133>>,
      <<<<266447, 849259, 255941, 851376>>, 118717>>,
      <<<<266447, 849259, 247955, 850002>>, 205756>>,
      <<<<266447, 849259, 266447, 849259>>, 0>>,
      <<<<266447, 849259, 129716, 775946>>, 1701709>>,
      <<<<266447, 849259, 173850, 784867>>, 1224448>>,
      <<<<266447, 849259, 247500, 850100>>, 210849>>,
      <<<<266447, 849259, 246961, 849869>>, 216760>>,
      <<<<266447, 849259, 0, 850002>>, 2962766>>,
      <<<<129716, 775946, 255941, 851376>>, 1610334>>,
      <<<<129716, 775946, 247955, 850002>>, 1527301>>,
      <<<<129716, 775946, 266447, 849259>>, 1701709>>,
      <<<<129716, 775946, 129716, 775946>>, 0>>,
      <<<<129716, 775946, 173850, 784867>>, 499993>>,
      <<<<129716, 775946, 247500, 850100>>, 1523535>>,
      <<<<129716, 775946, 246961, 849869>>, 1517218>>,
      <<<<129716, 775946, 0, 850002>>, 1657379>>,
      <<<<173850, 784867, 255941, 851376>>, 1142582>>,
      <<<<173850, 784867, 247955, 850002>>, 1065199>>,
      <<<<173850, 784867, 266447, 849259>>, 1224448>>,
      <<<<173850, 784867, 129716, 775946>>, 499993>>,
      <<<<173850, 784867, 173850, 784867>>, 0>>,
      <<<<173850, 784867, 247500, 850100>>, 1062007>>,
      <<<<173850, 784867, 246961, 849869>>, 1055948>>,
      <<<<173850, 784867, 0, 850002>>, 2060417>>,
      <<<<247500, 850100, 255941, 851376>>, 94733>>,
      <<<<247500, 850100, 247955, 850002>>, 5155>>,
      <<<<247500, 850100, 266447, 849259>>, 210849>>,
      <<<<247500, 850100, 129716, 775946>>, 1523535>>,
      <<<<247500, 850100, 173850, 784867>>, 1062007>>,
      <<<<247500, 850100, 247500, 850100>>, 0>>,
      <<<<247500, 850100, 246961, 849869>>, 6431>>,
      <<<<247500, 850100, 0, 850002>>, 2752074>>,
      <<<<246961, 849869, 255941, 851376>>, 100998>>,
      <<<<246961, 849869, 247955, 850002>>, 11134>>,
      <<<<246961, 849869, 266447, 849259>>, 216760>>,
      <<<<246961, 849869, 129716, 775946>>, 1517218>>,
      <<<<246961, 849869, 173850, 784867>>, 1055948>>,
      <<<<246961, 849869, 247500, 850100>>, 6431>>,
      <<<<246961, 849869, 246961, 849869>>, 0>>,
      <<<<246961, 849869, 0, 850002>>, 2746081>>,
      <<<<0, 850002, 255941, 851376>>, 2845972>>,
      <<<<0, 850002, 247955, 850002>>, 2757133>>,
      <<<<0, 850002, 266447, 849259>>, 2962766>>,
      <<<<0, 850002, 129716, 775946>>, 1657379>>,
      <<<<0, 850002, 173850, 784867>>, 2060417>>,
      <<<<0, 850002, 247500, 850100>>, 2752074>>,
      <<<<0, 850002, 246961, 849869>>, 2746081>>,
      <<<<0, 850002, 0, 850002>>, 0>> }

\* R * c of the haversine formula; NaN as soon as one argument is not a number.
haversineDistance(lat1, lon1, lat2, lon2) ==
    IF IsNum(lat1) /\ IsNum(lon1) /\ IsNum(lat2) /\ IsNum(lon2)
    THEN Num((CHOOSE r \in HaversineTable :
                  r[1] = <<lat1.v, lon1.v, lat2.v, lon2.v>>)[2])
    ELSE NaN

-----------------------------------------------------------------------------
(* matching.ts *)

\* includes with both sides normalised as the district lookup normalises.
includes_Normalized(arr, s) ==
    \E i \in 1..Len(arr) :
        replaceWhiteSpace(toLowerCase(arr[i])) = replaceWhiteSpace(toLowerCase(s))

\* Array.prototype.includes on an array of strings: strict equality.
includes(arr, s) == \E i \in 1..Len(arr) : arr[i] = s

\* checkPerfectMatch without the second teacher's preference.
checkPerfectMatch_OneWay(teacher1, teacher2) ==
    /\ \E i \in 1..Len(teacher1.preferredDistricts) :
           teacher1.preferredDistricts[i] = teacher2.currentDistrict
    /\ teacher1.gradeLevel = teacher2.gradeLevel

checkPerfectMatch(teacher1, teacher2) ==
    \* teacher1WantsTeacher2District && teacher2WantsTeacher1District && sameGradeLevel
    /\ includes(teacher1.preferredDistricts, teacher2.currentDistrict)
    /\ includes(teacher2.preferredDistricts, teacher1.currentDistrict)
    /\ teacher1.gradeLevel = teacher2.gradeLevel

\* The fallback of calculateDistance and calculateDistanceToHome:
\* if (coords1 && coords2) return haversineDistance(...); return 0;
DistrictDistance(coords1, coords2) ==
    IF TruthyCoords(coords1) /\ TruthyCoords(coords2)
    THEN haversineDistance(coords1.lat, coords1.lng, coords2.lat, coords2.lng)
    ELSE Num(0)

calculateDistance(teacher1, teacher2) ==
    IF /\ TruthyStr(teacher1.currentLatitude) /\ TruthyStr(teacher1.currentLongitude)
       /\ TruthyStr(teacher2.currentLatitude) /\ TruthyStr(teacher2.currentLongitude)
    THEN haversineDistance(parseFloat(teacher1.currentLatitude),
                           parseFloat(teacher1.currentLongitude),
                           parseFloat(teacher2.currentLatitude),
                           parseFloat(teacher2.currentLongitude))
    ELSE DistrictDistance(getDistrictCoordinates(teacher1.currentDistrict),
                          getDistrictCoordinates(teacher2.currentDistrict))

calculateDistanceToHome(teacher) ==
    IF /\ TruthyStr(teacher.currentLatitude) /\ TruthyStr(teacher.currentLongitude)
       /\ TruthyStr(teacher.homeLatitude) /\ TruthyStr(teacher.homeLongitude)
    THEN haversineDistance(parseFloat(teacher.currentLatitude),
                           parseFloat(teacher.currentLongitude),
                           parseFloat(teacher.homeLatitude),
                           parseFloat(teacher.homeLongitude))
    ELSE DistrictDistance(getDistrictCoordinates(teacher.currentDistrict),
                          getDistrictCoordinates(teacher.homeDistrict))

\* Lines 227-231 and 242-246: if (coords) { lat = coords.lat; lng = coords.lng }
PointOfCoords(coords) ==
    IF TruthyCoords(coords) THEN <<coords.lat, coords.lng>> ELSE <<Undefined, Undefined>>

\* Lines 219-232: the candidate's point <<teacherLat, teacherLng>>; both stay
\* undefined when the district lookup returns null, and an inherited
\* non-coordinate object has neither a lat nor a lng.
TeacherLocation(teacher) ==
    IF TruthyStr(teacher.currentSchoolLatitude) /\ TruthyStr(teacher.currentSchoolLongitude)
    THEN <<parseFloat(teacher.currentSchoolLatitude), parseFloat(teacher.currentSchoolLongitude)>>
    ELSE IF TruthyStr(teacher.currentLatitude) /\ TruthyStr(teacher.currentLongitude)
         THEN <<parseFloat(teacher.currentLatitude), parseFloat(teacher.currentLongitude)>>
         ELSE PointOfCoords(getDistrictCoordinates(teacher.currentDistrict))

\* Lines 234-247: the subject's home point <<homeLat, homeLng>>.
HomeLocation(homeTeacher) ==
    IF TruthyStr(homeTeacher.homeLatitude) /\ TruthyStr(homeTeacher.homeLongitude)
    THEN <<parseFloat(homeTeacher.homeLatitude), parseFloat(homeTeacher.homeLongitude)>>
    ELSE IF /\ TruthyStr(homeTeacher.preferredLocationLatitude)
            /\ TruthyStr(homeTeacher.preferredLocationLongitude)
         THEN <<parseFloat(homeTeacher.preferredLocationLatitude),
                parseFloat(homeTeacher.preferredLocationLongitude)>>
         ELSE PointOfCoords(getDistrictCoordinates(homeTeacher.homeDistrict))

\* Lines 249-253 with NaN, not 0, for a point without coordinates.
DistanceBetween_UnknownIsNaN(teacherLoc, homeLoc) ==
    IF /\ TruthyNum(teacherLoc[1]) /\ TruthyNum(teacherLoc[2])
       /\ TruthyNum(homeLoc[1]) /\ TruthyNum(homeLoc[2])
    THEN haversineDistance(teacherLoc[1], teacherLoc[2], homeLoc[1], homeLoc[2])
    ELSE NaN

\* Lines 249-253.
DistanceBetween(teacherLoc, homeLoc) ==
    IF /\ TruthyNum(teacherLoc[1]) /\ TruthyNum(teacherLoc[2])
       /\ TruthyNum(homeLoc[1]) /\ TruthyNum(homeLoc[2])
    THEN haversineDistance(teacherLoc[1], teacherLoc[2], homeLoc[1], homeLoc[2])
    ELSE Num(0)

calculateDistanceFromTeacherToHome(teacher, homeTeacher) ==
    DistanceBetween(TeacherLocation(teacher), HomeLocation(homeTeacher))

\* The score without Math.max(0, ...).
NearbyScore_Unclamped(d) ==
    IF IsNum(d) THEN Num(100 - (d.v \div 10000)) ELSE NaN

MathMax(a, b) == IF IsNum(a) /\ IsNum(b) THEN (IF a.v >= b.v THEN a ELSE b) ELSE NaN

\* Math.max(0, 100 - Math.floor(d / 10)) for d kilometres, d given in metres.
NearbyScore(d) ==
    MathMax(Num(0), IF IsNum(d) THEN Num(100 - (d.v \div 10000)) ELSE NaN)

\* maxDistance is in kilometres, the distances of the model in metres.
KmToMetres(x) ==
    IF IsNum(ToNumber(x)) THEN Num(1000 * ToNumber(x).v) ELSE NaN

\* Line 163 with <= in place of < in the comparison with the subject's own
\* distance to home.
NearbyDecision_NotStrict(maxDistance, currentTeacherCurrentToHome, otherTeacherToCurrentHome) ==
    IF /\ Le(otherTeacherToCurrentHome, currentTeacherCurrentToHome)
       /\ Le(otherTeacherToCurrentHome, KmToMetres(maxDistance))
    THEN [found |-> TRUE, distance |-> otherTeacherToCurrentHome,
          score |-> NearbyScore(otherTeacherToCurrentHome)]
    ELSE [found |-> FALSE, distance |-> Num(0), score |-> Num(0)]

\* Lines 163-168, on the two distances of lines 160-161: the object
\* checkNearbyMatch returns; found = FALSE stands for null.
NearbyDecision(maxDistance, currentTeacherCurrentToHome, otherTeacherToCurrentHome) ==
    IF /\ Lt(otherTeacherToCurrentHome, currentTeacherCurrentToHome)
       /\ Le(otherTeacherToCurrentHome, KmToMetres(maxDistance))
    THEN [found |-> TRUE, distance |-> otherTeacherToCurrentHome,
          score |-> NearbyScore(otherTeacherToCurrentHome)]
    ELSE [found |-> FALSE, distance |-> Num(0), score |-> Num(0)]

checkNearbyMatch(currentTeacher, otherTeacher) ==
    IF currentTeacher.gradeLevel # otherTeacher.gradeLevel
    THEN [found |-> FALSE, distance |-> Num(0), score |-> Num(0)]
    ELSE NearbyDecision(currentTeacher.maxDistance,
                        calculateDistanceToHome(currentTeacher),
                        calculateDistanceFromTeacherToHome(otherTeacher, currentTeacher))

\* Line 104 without the isActive test.
Skipped_IgnoresInactive(currentTeacher, teacher) ==
    teacher.id = currentTeacher.id

\* Line 104: the candidates the loop passes over.
Skipped(currentTeacher, teacher) ==
    teacher.id = currentTeacher.id \/ ~teacher.isActive

\* Lines 104-128: what one iteration of the loop pushes onto matches.
\* Lines 121-128: if (nearbyMatch) matches.push(...).
NearbyMatchesOf(teacher, nearbyMatch) ==
    IF nearbyMatch.found
    THEN << [teacher |-> teacher, matchType |-> "nearby",
             distance |-> nearbyMatch.distance, score |-> nearbyMatch.score] >>
    ELSE <<>>

\* The loop body without the continue of line 117: a perfect match goes on
\* to the nearby test.
MatchesOf_NoContinue(currentTeacher, teacher) ==
    IF Skipped(currentTeacher, teacher) THEN <<>>
    ELSE (IF checkPerfectMatch(currentTeacher, teacher)
          THEN << [teacher |-> teacher, matchType |-> "perfect",
                   distance |-> calculateDistance(currentTeacher, teacher),
                   score |-> Num(100)] >>
          ELSE <<>>)
         \o NearbyMatchesOf(teacher, checkNearbyMatch(currentTeacher, teacher))

MatchesOf(currentTeacher, teacher) ==
    IF Skipped(currentTeacher, teacher) THEN <<>>
    ELSE IF checkPerfectMatch(currentTeacher, teacher)
         THEN << [teacher |-> teacher, matchType |-> "perfect",
                  distance |-> calculateDistance(currentTeacher, teacher),
                  score |-> Num(100)] >>
         ELSE NearbyMatchesOf(teacher, checkNearbyMatch(currentTeacher, teacher))

\* Lines 101-129: the list the loop builds, in encounter order.
RECURSIVE CollectMatches(_, _)
CollectMatches(currentTeacher, teachers) ==
    IF teachers = <<>> THEN <<>>
    ELSE MatchesOf(currentTeacher, Head(teachers))
             \o CollectMatches(currentTeacher, Tail(teachers))

\* Lines 132-136: the comparator, a JavaScript number.
compareMatches(a, b) ==
    IF a.matchType = "perfect" /\ b.matchType # "perfect" THEN Num(0 - 1)
    ELSE IF a.matchType # "perfect" /\ b.matchType = "perfect" THEN Num(1)
         ELSE Sub(a.distance, b.distance)

\* Array.prototype.sort reads the comparator's result as a sign, NaN as +0.
SignOf(v) ==
    IF ~IsNum(v) \/ v.v = 0 THEN 0 ELSE IF v.v < 0 THEN 0 - 1 ELSE 1

CompareSign(a, b) == SignOf(compareMatches(a, b))

\* ECMAScript's "consistent comparison function" for the elements of ms.
ConsistentComparator(ms) ==
    \A i, j, k \in 1..Len(ms) :
        /\ CompareSign(ms[i], ms[i]) = 0
        /\ (CompareSign(ms[i], ms[j]) < 0) = (CompareSign(ms[j], ms[i]) > 0)
        /\ (CompareSign(ms[i], ms[j]) = 0 /\ CompareSign(ms[j], ms[k]) = 0)
               => CompareSign(ms[i], ms[k]) = 0
        /\ (CompareSign(ms[i], ms[j]) < 0 /\ CompareSign(ms[j], ms[k]) < 0)
               => CompareSign(ms[i], ms[k]) < 0
        /\ (CompareSign(ms[i], ms[j]) > 0 /\ CompareSign(ms[j], ms[k]) > 0)
               => CompareSign(ms[i], ms[k]) > 0

\* Stable insertion of x after the last element that does not follow it.
RECURSIVE InsertStable(_, _)
InsertStable(sorted, x) ==
    IF sorted = <<>> THEN <<x>>
    ELSE IF CompareSign(sorted[Len(sorted)], x) <= 0 THEN Append(sorted, x)
         ELSE Append(InsertStable(SubSeq(sorted, 1, Len(sorted) - 1), x), sorted[Len(sorted)])

RECURSIVE StableSort(_)
StableSort(ms) ==
    IF ms = <<>> THEN <<>>
    ELSE InsertStable(StableSort(SubSeq(ms, 1, Len(ms) - 1)), ms[Len(ms)])

Orderings(ms) ==
    { [i \in 1..Len(ms) |-> ms[p[i]]] :
        p \in { q \in [1..Len(ms) -> 1..Len(ms)] :
                    \A i, j \in 1..Len(ms) : i # j => q[i] # q[j] } }

\* Array.prototype.sort with the comparator of lines 132-136: the set of
\* arrays it can return.  The sort is stable; with a comparator that is not
\* consistent (a NaN distance among unequal distances) the order is
\* implementation-defined.
sort(ms) ==
    IF ConsistentComparator(ms) THEN {StableSort(ms)} ELSE Orderings(ms)

\* The set of lists findMatches can return.
findMatches(currentTeacher, teachers) ==
    sort(CollectMatches(currentTeacher, teachers))

-----------------------------------------------------------------------------
(* The strings the profiles of the model are built from *)

D_Patna == <<"P", "a", "t", "n", "a">>

D_patna == <<"p", "a", "t", "n", "a">>

D_Gaya == <<"G", "a", "y", "a">>

D_gaya == <<"g", "a", "y", "a">>

D_nowhere == <<"n", "o", "w", "h", "e", "r", "e">>

D_constructor == <<"c", "o", "n", "s", "t", "r", "u", "c", "t", "o", "r">>

D_EastChamparan == <<"E", "a", "s", "t", " ", "C", "h", "a", "m", "p", "a", "r", "a", "n">>

D_east_champaran == <<"e", "a", "s", "t", "_", "c", "h", "a", "m", "p", "a", "r", "a", "n">>

\* Coordinate pairs <<latitude, longitude>> as the decimal strings the schema stores.
P_blr == <<<<"1", "2", ".", "9", "7", "1", "6">>, <<"7", "7", ".", "5", "9", "4", "6">>>>

P_hyd == <<<<"1", "7", ".", "3", "8", "5", "0">>, <<"7", "8", ".", "4", "8", "6", "7">>>>

P_nearGaya == <<<<"2", "4", ".", "7", "5", "0", "0">>, <<"8", "5", ".", "0", "1", "0", "0">>>>

P_bodh == <<<<"2", "4", ".", "6", "9", "6", "1">>, <<"8", "4", ".", "9", "8", "6", "9">>>>

P_zero == <<<<"0">>, <<"8", "5", ".", "0", "0", "0", "2">>>>

\* null || ""
NoString == <<>>

P_none == <<NoString, NoString>>

P_latOnly == <<P_nearGaya[1], NoString>>

-----------------------------------------------------------------------------
(* Input profiles *)

MaxCandidates == 3

\* A TeacherWithUser, reduced to the fields the engine reads.
Teacher(id, isActive, gradeLevel, currentDistrict, current, school, homeDistrict, home, preferredDistricts, preferredLocation, maxDistance) ==
    [ id                         |-> id,
      isActive                   |-> isActive,
      gradeLevel                 |-> gradeLevel,
      currentDistrict            |-> currentDistrict,
      currentLatitude            |-> current[1],
      currentLongitude           |-> current[2],
      currentSchoolLatitude      |-> school[1],
      currentSchoolLongitude     |-> school[2],
      homeDistrict               |-> homeDistrict,
      homeLatitude               |-> home[1],
      homeLongitude              |-> home[2],
      preferredDistricts         |-> preferredDistricts,
      preferredLocationLatitude  |-> preferredLocation[1],
      preferredLocationLongitude |-> preferredLocation[2],
      maxDistance                |-> maxDistance ]

GradeLevels == {"primary", "secondary"}

\* Profiles that differ in the fields the exclusion and the perfect-match
\* test read; located by district name only, home in gaya.
PrefProfiles(id) ==
    { Teacher(id, active, grade, district, P_none, P_none,
              D_gaya, P_none, preferred, P_none, Num(100)) :
        active \in BOOLEAN, grade \in GradeLevels,
        district \in {D_gaya, D_Gaya, D_patna},
        preferred \in {<<>>, <<D_gaya>>, <<D_Gaya, D_patna>>} }

\* Two profiles; the second is another teacher or a second record under the
\* first one's id.
PrefRosters ==
    { <<a, b>> : a \in PrefProfiles(1), b \in PrefProfiles(1) \cup PrefProfiles(2) }

\* Profiles that differ in the coordinates of the subject's role: current
\* point, home point, preferred location, districts, maxDistance.
GeoSubjects ==
    { Teacher(1, TRUE, "primary", district, current, P_none,
              homeDistrict, home, <<D_gaya, D_constructor>>, preferredLocation,
              Num(maxDistance)) :
        district \in {D_patna, D_nowhere},
        current \in {P_none, P_blr},
        homeDistrict \in {D_gaya, D_nowhere},
        home \in {P_none, P_nearGaya, P_latOnly},
        preferredLocation \in {P_none, P_bodh},
        maxDistance \in {0, 50, 2000} }

\* Profiles that differ in the coordinates of the candidate's role: school
\* point, current point, district.
GeoCandidates ==
    { Teacher(2, TRUE, grade, district, current, school,
              D_gaya, P_none, preferred, P_none, Num(100)) :
        grade \in GradeLevels,
        district \in {D_gaya, D_patna, D_nowhere, D_constructor},
        current \in {P_none, P_hyd},
        school \in {P_none, P_nearGaya, P_zero},
        preferred \in {<<>>, <<D_patna>>} }

GeoRosters == { <<s, c>> : s \in GeoSubjects, c \in GeoCandidates }

\* A subject in patna whose home is gaya, and candidates that come out as
\* perfect or nearby matches of it at several distances.
SortSubject ==
    Teacher(1, TRUE, "primary", D_patna, P_none, P_none, D_gaya, P_none,
            <<D_gaya, D_EastChamparan, D_constructor>>, P_none, Num(100))

SortCandidates(id) ==
    { Teacher(id, TRUE, "primary", D_gaya, P_none, P_none, D_gaya, P_none,
              <<D_patna>>, P_none, Num(100)),
      Teacher(id, TRUE, "primary", D_EastChamparan, P_none, P_none, D_gaya, P_none,
              <<D_patna>>, P_none, Num(100)),
      Teacher(id, TRUE, "primary", D_constructor, P_none, P_none, D_gaya, P_none,
              <<D_patna>>, P_none, Num(100)),
      Teacher(id, TRUE, "primary", D_Gaya, P_none, P_none, D_gaya, P_none,
              <<>>, P_none, Num(100)),
      Teacher(id, TRUE, "primary", D_gaya, P_none, P_nearGaya, D_gaya, P_none,
              <<>>, P_none, Num(100)),
      Teacher(id, TRUE, "primary", D_gaya, P_bodh, P_none, D_gaya, P_none,
              <<>>, P_none, Num(100)) }

RECURSIVE SortRostersOf(_)
SortRostersOf(n) ==
    IF n = 0 THEN {<<SortSubject>>}
    ELSE { Append(r, c) : r \in SortRostersOf(n - 1), c \in SortCandidates(n + 1) }

SortRosters == UNION { SortRostersOf(n) : n \in 0..MaxCandidates }

\* One candidate more, all of them perfect matches of SortSubject: lists in
\* which two results at the same distance meet a NaN distance and a third
\* distance.
TieCandidates(id) == {c \in SortCandidates(id) : c.preferredDistricts = <<D_patna>>}

RECURSIVE TieRostersOf(_)
TieRostersOf(n) ==
    IF n = 0 THEN {<<SortSubject>>}
    ELSE { Append(r, c) : r \in TieRostersOf(n - 1), c \in TieCandidates(n + 1) }

TieRosters == TieRostersOf(MaxCandidates + 1)

-----------------------------------------------------------------------------
(* The engine applied to a roster *)

currentTeacher == allTeachers[subject]

\* No response sent yet.
NoResponse == [route |-> "none", code |-> 0]

Init ==
    /\ allTeachers \in PrefRosters \cup GeoRosters \cup SortRosters \cup TieRosters
    /\ subject = 0
    /\ matches = <<>>
    /\ pc = "idle"
    /\ users = <<>>
    /\ storedTeachers = <<>>
    /\ transferRequests = <<>>
    /\ handlers = <<>>
    /\ response = NoResponse

\* A call that lowercases the district names of the profiles it is given.
FindMatches_WritesDistricts(k) ==
    /\ subject' = k
    /\ matches' \in findMatches(allTeachers[k], allTeachers)
    /\ pc' = "done"
    /\ allTeachers' = [i \in 1..Len(allTeachers) |->
                          [allTeachers[i] EXCEPT !.currentDistrict = toLowerCase(@)]]
    /\ UNCHANGED <<storageVars, routeVars>>

\* routes.ts: the match routes look the subject up in the roster they pass.
FindMatches(k) ==
    /\ subject' = k
    /\ matches' \in findMatches(allTeachers[k], allTeachers)
    /\ pc' = "done"
    /\ UNCHANGED allTeachers
    /\ UNCHANGED <<storageVars, routeVars>>

Next == \E k \in 1..Len(allTeachers) : FindMatches(k)

Spec == Init /\ [][Next]_vars

-----------------------------------------------------------------------------
(* storage.ts: MemStorage *)

\* The bounds of the route specifications: handlers suspended at a time,
\* stored teacher profiles, registered users, stored transfer requests.
MaxHandlers == 2

MaxProfiles == 2

\* Map.get and Array.find on a miss: undefined.  Ids start at 1.
NoTeacher == [id |-> 0, userId |-> 0]

FirstOrZero(S) == IF S = {} THEN 0 ELSE CHOOSE i \in S : \A j \in S : i <= j

\* Array.from(this.teachers.values()).find(teacher => teacher.userId === userId)
TeacherAtOrNone(i) == IF i = 0 THEN NoTeacher ELSE storedTeachers[i]

getTeacherByUserId(userId) ==
    TeacherAtOrNone(FirstOrZero({i \in 1..Len(storedTeachers) :
                                    storedTeachers[i].userId = userId}))

\* this.teachers.get(id) for a JavaScript number id; the key of a stored
\* teacher is its position, since ids are counted from 1 and never deleted.
getTeacherById(id) ==
    IF IsNum(id) /\ id.v \in 1..Len(storedTeachers) THEN storedTeachers[id.v] ELSE NoTeacher

\* insertTeacher.maxDistance || 100
MaxDistanceOrDefault(maxDistance) ==
    IF TruthyNum(maxDistance) THEN maxDistance ELSE Num(100)

\* createTeacher: the Teacher it stores under the next id.  The route does
\* not pass school or preferred-location coordinates.
createTeacher(insertTeacher) ==
    [ id                         |-> Len(storedTeachers) + 1,
      userId                     |-> insertTeacher.userId,
      isActive                   |-> insertTeacher.isActive,
      gradeLevel                 |-> insertTeacher.gradeLevel,
      currentDistrict            |-> insertTeacher.currentDistrict,
      currentLatitude            |-> insertTeacher.currentLatitude,
      currentLongitude           |-> insertTeacher.currentLongitude,
      currentSchoolLatitude      |-> NoString,
      currentSchoolLongitude     |-> NoString,
      homeDistrict               |-> insertTeacher.homeDistrict,
      homeLatitude               |-> insertTeacher.homeLatitude,
      homeLongitude              |-> insertTeacher.homeLongitude,
      preferredDistricts         |-> insertTeacher.preferredDistricts,
      preferredLocationLatitude  |-> NoString,
      preferredLocationLongitude |-> NoString,
      maxDistance                |-> MaxDistanceOrDefault(insertTeacher.maxDistance) ]

\* { ...teacher, ...updates }
Spread(teacher, updates) ==
    [k \in DOMAIN teacher \cup DOMAIN updates |->
        IF k \in DOMAIN updates THEN updates[k] ELSE teacher[k]]

\* updateTeacher, for an id that is in the map.
updateTeacher(id, updates) ==
    [storedTeachers EXCEPT ![id] = Spread(@, updates)]

-----------------------------------------------------------------------------
(* routes.ts: teacher profiles and the match routes *)

\* Number.prototype.toString for a coordinate counted in 1e-4 degrees.
DigitChar(d) == Digits[d + 1]

RECURSIVE NatToDigits(_)
NatToDigits(n) ==
    IF n < 10 THEN <<DigitChar(n)>> ELSE Append(NatToDigits(n \div 10), DigitChar(n % 10))

RECURSIVE DropTrailingZeros(_)
DropTrailingZeros(ds) ==
    IF ds # <<>> /\ ds[Len(ds)] = "0" THEN DropTrailingZeros(SubSeq(ds, 1, Len(ds) - 1)) ELSE ds

FractionToString(fracDs) == IF fracDs = <<>> THEN <<>> ELSE <<".">> \o fracDs

FourDigits(ds) == SubSeq(<<"0", "0", "0">> \o ds, Len(ds), Len(ds) + 3)

toString(x) ==
    (IF x.v < 0 THEN <<"-">> ELSE <<>>)
        \o NatToDigits((IF x.v < 0 THEN 0 - x.v ELSE x.v) \div 10000)
        \o FractionToString(DropTrailingZeros(
               FourDigits(NatToDigits((IF x.v < 0 THEN 0 - x.v ELSE x.v) % 10000))))

\* parseInt(req.params.id): the leading decimal digits, NaN without any.
IntegerOfDigits(ds) == IF ds = <<>> THEN NaN ELSE Num(DigitsToNat(ds))

parseInt(s) == IntegerOfDigits(TakeDigits(SkipWhiteSpace(s)))

\* A handler slot that holds no request.
Idle == [route |-> "idle", await |-> "none"]

\* The event loop.  A handler runs without interruption up to its next
\* await.  The awaits of MemStorage's methods are settled promises: their
\* continuations are microtasks, which all run before the loop takes up the
\* next request or timer.  Handlers are therefore suspended together only
\* when their requests arrived in the same turn (pipelined on a connection)
\* and each is still at its first await when the next one starts, or when
\* they wait for bcrypt.hash, which completes in a later turn.
CanStart(h) ==
    /\ handlers[h] = Idle
    /\ \A g \in 1..Len(handlers) :
          handlers[g].await \in {"none", "first", "bcrypt.hash"}

MicrotasksDone ==
    \A g \in 1..Len(handlers) : handlers[g].await \in {"none", "bcrypt.hash"}

IsUser(u) == u \in 1..Len(users)

\* Lines 114 and 122: the district's coordinates are looked up when a
\* coordinate of the pair is missing.
NeedsCoords(lat, lng) == ~TruthyStr(lat) \/ ~TruthyStr(lng)

\* Lines 117-118 and 125-126 throw a TypeError when coords has no lat:
\* undefined.toString().
FillThrows(teacherData) ==
    \/ /\ NeedsCoords(teacherData.currentLatitude, teacherData.currentLongitude)
       /\ getDistrictCoordinates(teacherData.currentDistrict).kind = "inherited"
    \/ /\ NeedsCoords(teacherData.homeLatitude, teacherData.homeLongitude)
       /\ getDistrictCoordinates(teacherData.homeDistrict).kind = "inherited"

FilledCoordinate(lat, lng, own, coords, pick) ==
    IF NeedsCoords(lat, lng) /\ TruthyCoords(coords) THEN toString(coords[pick]) ELSE own

\* Lines 113-128: teacherData after the two fills.
WithDistrictCoordinates(teacherData) ==
    [teacherData EXCEPT
        !.currentLatitude  = FilledCoordinate(teacherData.currentLatitude,
                                 teacherData.currentLongitude, @,
                                 getDistrictCoordinates(teacherData.currentDistrict), "lat"),
        !.currentLongitude = FilledCoordinate(teacherData.currentLatitude,
                                 teacherData.currentLongitude, @,
                                 getDistrictCoordinates(teacherData.currentDistrict), "lng"),
        !.homeLatitude     = FilledCoordinate(teacherData.homeLatitude,
                                 teacherData.homeLongitude, @,
                                 getDistrictCoordinates(teacherData.homeDistrict), "lat"),
        !.homeLongitude    = FilledCoordinate(teacherData.homeLatitude,
                                 teacherData.homeLongitude, @,
                                 getDistrictCoordinates(teacherData.homeDistrict), "lng")]

\* The bodies POST /api/teachers is sent, as insertTeacherSchema.parse
\* returns them: no coordinates, maxDistance given or absent.
TeacherBodies ==
    { [ isActive |-> TRUE, gradeLevel |-> "primary",
        currentDistrict |-> district,
        currentLatitude |-> NoString, currentLongitude |-> NoString,
        homeDistrict |-> D_gaya,
        homeLatitude |-> NoString, homeLongitude |-> NoString,
        preferredDistricts |-> <<D_gaya, D_patna>>,
        maxDistance |-> maxDistance ] :
        district \in {D_patna, D_constructor},
        maxDistance \in {Undefined, Num(50)} }

\* The bodies PUT /api/teachers/:id is sent; the route passes req.body on as
\* it is.
UpdateBodies == { [maxDistance |-> Null], [maxDistance |-> Num(30)] }

\* req.params.id: "1", "2", and "me" (PUT /api/teachers/me reaches the :id
\* route, which is registered first).
IdParams == { <<"1">>, <<"2">>, <<"m", "e">> }

MatchRoutes == {"GET /api/matches", "GET /api/dashboard/stats"}

\* allTeachers, subject, matches and the response describe the step just
\* taken: the locals of a match route are gone once its handler has
\* answered.
NoCall ==
    /\ allTeachers' = <<>>
    /\ subject' = 0
    /\ matches' = <<>>
    /\ pc' = "idle"

\* The handler in slot h stops at an await with the locals in locals.
Suspend(h, locals) ==
    /\ handlers' = [handlers EXCEPT ![h] = locals]
    /\ response' = NoResponse
    /\ NoCall

Respond(h, r) ==
    /\ response' = r
    /\ handlers' = [handlers EXCEPT ![h] = Idle]

\* POST /api/teachers, lines 105-108: up to the await of getTeacherByUserId.
PostTeachers(h, u, teacherData) ==
    /\ CanStart(h)
    /\ IsUser(u)
    /\ Len(storedTeachers)
         + Cardinality({g \in 1..Len(handlers) : handlers[g].route = "POST /api/teachers"})
         < MaxProfiles
    /\ Suspend(h, [ route |-> "POST /api/teachers", await |-> "first", user |-> u,
                    teacherData |-> teacherData,
                    existingTeacher |-> getTeacherByUserId(u).id # 0 ])
    /\ UNCHANGED storageVars

\* POST /api/teachers, lines 109-155: from the check of existingTeacher to
\* the response; createTeacher writes the map before it returns.
PostTeachersResume(h) ==
    /\ handlers[h].route = "POST /api/teachers"
    /\ IF handlers[h].existingTeacher \/ FillThrows(handlers[h].teacherData)
       THEN /\ Respond(h, [route |-> "POST /api/teachers", code |-> 400])
            /\ UNCHANGED storedTeachers
       ELSE /\ storedTeachers' =
                   Append(storedTeachers,
                          createTeacher([userId |-> handlers[h].user]
                                            @@ WithDistrictCoordinates(handlers[h].teacherData)))
            /\ Respond(h, [route |-> "POST /api/teachers", code |-> 200,
                           request |-> handlers[h].teacherData,
                           teacher |-> storedTeachers'[Len(storedTeachers')]])
    /\ NoCall
    /\ UNCHANGED <<users, transferRequests>>

\* PUT /api/teachers/:id, lines 160-161: up to the await of getTeacherById.
PutTeacher(h, u, id, updateData) ==
    /\ CanStart(h)
    /\ IsUser(u)
    /\ Suspend(h, [ route |-> "PUT /api/teachers/:id", await |-> "first", user |-> u,
                    teacherId |-> parseInt(id), updateData |-> updateData,
                    teacher |-> [id |-> getTeacherById(parseInt(id)).id,
                                 userId |-> getTeacherById(parseInt(id)).userId] ])
    /\ UNCHANGED storageVars

\* PUT /api/teachers/:id, lines 163-177.
PutTeacherResume(h) ==
    /\ handlers[h].route = "PUT /api/teachers/:id"
    /\ IF handlers[h].teacher.id = 0
       THEN /\ Respond(h, [route |-> "PUT /api/teachers/:id", code |-> 404])
            /\ UNCHANGED storedTeachers
       ELSE IF handlers[h].teacher.userId # handlers[h].user
            THEN /\ Respond(h, [route |-> "PUT /api/teachers/:id", code |-> 403])
                 /\ UNCHANGED storedTeachers
            ELSE /\ storedTeachers' =
                        updateTeacher(handlers[h].teacherId.v, handlers[h].updateData)
                 /\ Respond(h, [route |-> "PUT /api/teachers/:id", code |-> 200])
    /\ NoCall
    /\ UNCHANGED <<users, transferRequests>>

\* GET /api/matches (line 212) and GET /api/dashboard/stats (line 340): up to
\* the await of getTeacherByUserId.
GetMatches(h, u, route) ==
    /\ CanStart(h)
    /\ IsUser(u)
    /\ Suspend(h, [ route |-> route, await |-> "first", user |-> u,
                    teacher |-> [id |-> getTeacherByUserId(u).id] ])
    /\ UNCHANGED storageVars

\* allTeachers.find(t => t.id === teacher.id)
FindById(roster, id) == FirstOrZero({i \in 1..Len(roster) : roster[i].id = id})

\* Lines 213-224 and 341-352: getTeachersWithUsers copies the map's values
\* into a new array, in which the subject is looked up and which findMatches
\* is given.
CallFindMatches(h, roster, k) ==
    IF handlers[h].teacher.id = 0 \/ k = 0
    THEN /\ Respond(h, [route |-> handlers[h].route, code |-> 404])
         /\ NoCall
    ELSE /\ allTeachers' = roster
         /\ subject' = k
         /\ matches' \in findMatches(roster[k], roster)
         /\ pc' = "done"
         /\ Respond(h, [route |-> handlers[h].route, code |-> 200])

GetMatchesResume(h) ==
    /\ handlers[h].route \in MatchRoutes
    /\ CallFindMatches(h, storedTeachers, FindById(storedTeachers, handlers[h].teacher.id))
    /\ UNCHANGED storageVars

\* Two registered users, no profile yet.
TwoUsers ==
    << [id |-> 1, email |-> "a@example.org"], [id |-> 2, email |-> "b@example.org"] >>

InitProfiles ==
    /\ allTeachers = <<>>
    /\ subject = 0
    /\ matches = <<>>
    /\ pc = "idle"
    /\ users = TwoUsers
    /\ storedTeachers = <<>>
    /\ transferRequests = <<>>
    /\ handlers = [h \in 1..MaxHandlers |-> Idle]
    /\ response = NoResponse

NextProfiles ==
    \E h \in 1..MaxHandlers :
        \/ \E u \in 1..Len(users), teacherData \in TeacherBodies :
               PostTeachers(h, u, teacherData)
        \/ PostTeachersResume(h)
        \/ \E u \in 1..Len(users), id \in IdParams, updateData \in UpdateBodies :
               PutTeacher(h, u, id, updateData)
        \/ PutTeacherResume(h)
        \/ \E u \in 1..Len(users), route \in MatchRoutes : GetMatches(h, u, route)
        \/ GetMatchesResume(h)

SpecProfiles == InitProfiles /\ [][NextProfiles]_vars

-----------------------------------------------------------------------------
(* routes.ts and storage.ts: registration *)

MaxUsers == 3

Emails == {"a@example.org", "b@example.org"}

\* Array.from(this.users.values()).find(user => user.email === email):
\* the position of the user found, 0 for undefined.
getUserByEmail(email) ==
    FirstOrZero({i \in 1..Len(users) : users[i].email = email})

\* POST /api/auth/register, lines 39-42: up to the await of getUserByEmail.
Register(h, email) ==
    /\ CanStart(h)
    /\ Len(users)
         + Cardinality({g \in 1..Len(handlers) : handlers[g].route = "POST /api/auth/register"})
         < MaxUsers
    /\ Suspend(h, [ route |-> "POST /api/auth/register", await |-> "first",
                    email |-> email, existingUser |-> getUserByEmail(email) # 0 ])
    /\ UNCHANGED storageVars

\* Lines 43-47, and createUser up to its await of bcrypt.hash (storage.ts
\* line 72): nothing is written yet.
RegisterResume(h) ==
    /\ handlers[h].route = "POST /api/auth/register"
    /\ handlers[h].await = "first"
    /\ IF handlers[h].existingUser
       THEN Respond(h, [route |-> "POST /api/auth/register", code |-> 400])
       ELSE /\ handlers' = [handlers EXCEPT ![h].await = "bcrypt.hash"]
            /\ response' = NoResponse
    /\ NoCall
    /\ UNCHANGED storageVars

\* createUser after the hash (storage.ts lines 73-80) and the response
\* (routes.ts lines 48-53).
CreateUserResume(h) ==
    /\ handlers[h].route = "POST /api/auth/register"
    /\ handlers[h].await = "bcrypt.hash"
    /\ MicrotasksDone
    /\ users' = Append(users, [id |-> Len(users) + 1, email |-> handlers[h].email])
    /\ Respond(h, [route |-> "POST /api/auth/register", code |-> 200,
                   user |-> users'[Len(users')]])
    /\ NoCall
    /\ UNCHANGED <<storedTeachers, transferRequests>>

InitRegister ==
    /\ allTeachers = <<>>
    /\ subject = 0
    /\ matches = <<>>
    /\ pc = "idle"
    /\ users = <<>>
    /\ storedTeachers = <<>>
    /\ transferRequests = <<>>
    /\ handlers = [h \in 1..MaxHandlers |-> Idle]
    /\ response = NoResponse

NextRegister ==
    \E h \in 1..MaxHandlers :
        \/ \E email \in Emails : Register(h, email)
        \/ RegisterResume(h)
        \/ CreateUserResume(h)

SpecRegister == InitRegister /\ [][NextRegister]_vars

-----------------------------------------------------------------------------
(* routes.ts and storage.ts: transfer requests *)

MaxRequests == 2

\* this.transferRequests.get(id) on a miss: undefined.
NoRequest == [id |-> 0, fromTeacherId |-> 0, toTeacherId |-> 0, status |-> ""]

\* getTransferRequestById for a JavaScript number id; the key of a stored
\* request is its position, since ids are counted from 1 and never deleted.
getTransferRequestById(id) ==
    IF IsNum(id) /\ id.v \in 1..Len(transferRequests)
    THEN transferRequests[id.v]
    ELSE NoRequest

\* getTransferRequestsByTeacher: copies of the requests the teacher sent, as
\* they are at the time of the call.
getTransferRequestsByTeacher(teacherId) ==
    SelectSeq(transferRequests, LAMBDA r : r.fromTeacherId = teacherId)

\* existingRequests.some(r => r.toTeacherId === requestData.toTeacherId
\*                            && r.status === 'pending')
AlreadyExists(existingRequests, toTeacherId) ==
    \E i \in 1..Len(existingRequests) :
        /\ existingRequests[i].toTeacherId = toTeacherId
        /\ existingRequests[i].status = "pending"

\* createTransferRequest: the request it stores under the next id.  The
\* bodies of the model carry no status, so insertRequest.status || "pending"
\* is "pending".
createTransferRequest(insertRequest) ==
    [ id            |-> Len(transferRequests) + 1,
      fromTeacherId |-> insertRequest.fromTeacherId,
      toTeacherId   |-> insertRequest.toTeacherId,
      status        |-> "pending" ]

\* updateTransferRequestStatus: the map after the call.  There is no test of
\* the status the request has.
updateTransferRequestStatus(id, status) ==
    IF id \in 1..Len(transferRequests)
    THEN [transferRequests EXCEPT ![id].status = status]
    ELSE transferRequests

\* The bodies POST /api/transfer-requests is sent: toTeacherId.  Teacher 2
\* is the recipient of every request, teacher 1 or teacher 2 the sender.
RequestBodies == {2}

\* The status values PUT /api/transfer-requests/:id/status is sent.
StatusBodies == {"accepted", "rejected", "pending"}

\* POST /api/transfer-requests, line 255: up to the await of
\* getTeacherByUserId.
PostTransferRequest(h, u, toTeacherId) ==
    /\ CanStart(h)
    /\ IsUser(u)
    /\ Len(transferRequests)
         + Cardinality({g \in 1..Len(handlers) :
                           handlers[g].route = "POST /api/transfer-requests"})
         < MaxRequests
    /\ Suspend(h, [ route |-> "POST /api/transfer-requests", await |-> "first",
                    user |-> u, teacher |-> getTeacherByUserId(u).id,
                    toTeacherId |-> toTeacherId, alreadyExists |-> FALSE ])
    /\ UNCHANGED storageVars

\* Lines 256-263: the 404, and the call of getTransferRequestsByTeacher,
\* which reads the map before the handler is suspended again.
PostTransferRequestResume(h) ==
    /\ handlers[h].route = "POST /api/transfer-requests"
    /\ handlers[h].await = "first"
    /\ IF handlers[h].teacher = 0
       THEN Respond(h, [route |-> "POST /api/transfer-requests", code |-> 404,
                        user |-> handlers[h].user])
       ELSE /\ handlers' =
                 [handlers EXCEPT
                    ![h].await = "second",
                    ![h].alreadyExists =
                        AlreadyExists(getTransferRequestsByTeacher(handlers[h].teacher),
                                      handlers[h].toTeacherId)]
            /\ response' = NoResponse
    /\ NoCall
    /\ UNCHANGED storageVars

\* Lines 264-277: the test of the requests read earlier, createTransferRequest
\* and the response.
PostTransferRequestCreate(h) ==
    /\ handlers[h].route = "POST /api/transfer-requests"
    /\ handlers[h].await = "second"
    /\ IF handlers[h].alreadyExists
       THEN /\ Respond(h, [route |-> "POST /api/transfer-requests", code |-> 400,
                           user |-> handlers[h].user])
            /\ UNCHANGED transferRequests
       ELSE /\ transferRequests' =
                 Append(transferRequests,
                        createTransferRequest([fromTeacherId |-> handlers[h].teacher,
                                               toTeacherId |-> handlers[h].toTeacherId]))
            /\ Respond(h, [route |-> "POST /api/transfer-requests", code |-> 200,
                           user |-> handlers[h].user])
    /\ NoCall
    /\ UNCHANGED <<users, storedTeachers>>

\* The response of PUT /api/transfer-requests/:id/status, with the call it
\* answers.
StatusResponse(code, u, id, status) ==
    [ route |-> "PUT /api/transfer-requests/:id/status", code |-> code,
      user |-> u, id |-> id, status |-> status ]

\* PUT /api/transfer-requests/:id/status, lines 313-320: the 400, or up to
\* the await of getTransferRequestById.
PutStatus(h, u, id, status) ==
    /\ CanStart(h)
    /\ IsUser(u)
    /\ IF status \notin {"accepted", "rejected"}
       THEN /\ Respond(h, StatusResponse(400, u, parseInt(id), status))
            /\ NoCall
       ELSE Suspend(h, [ route |-> "PUT /api/transfer-requests/:id/status",
                         await |-> "first", user |-> u, id |-> parseInt(id),
                         status |-> status,
                         request |-> [id |-> getTransferRequestById(parseInt(id)).id,
                                      toTeacherId |->
                                        getTransferRequestById(parseInt(id)).toTeacherId],
                         teacher |-> 0 ])
    /\ UNCHANGED storageVars

\* Lines 321-325: the 404, or up to the await of getTeacherByUserId.
PutStatusResume(h) ==
    /\ handlers[h].route = "PUT /api/transfer-requests/:id/status"
    /\ handlers[h].await = "first"
    /\ IF handlers[h].request.id = 0
       THEN Respond(h, StatusResponse(404, handlers[h].user, handlers[h].id,
                                      handlers[h].status))
       ELSE /\ handlers' =
                 [handlers EXCEPT ![h].await = "second",
                                  ![h].teacher = getTeacherByUserId(handlers[h].user).id]
            /\ response' = NoResponse
    /\ NoCall
    /\ UNCHANGED storageVars

\* Lines 326-331: the 403, or updateTransferRequestStatus and the response.
PutStatusUpdate_AnyTeacher(h) ==
    /\ handlers[h].route = "PUT /api/transfer-requests/:id/status"
    /\ handlers[h].await = "second"
    /\ IF handlers[h].teacher = 0
       THEN /\ Respond(h, StatusResponse(403, handlers[h].user, handlers[h].id,
                                         handlers[h].status))
            /\ UNCHANGED transferRequests
       ELSE /\ transferRequests' =
                 updateTransferRequestStatus(handlers[h].id.v, handlers[h].status)
            /\ Respond(h, StatusResponse(200, handlers[h].user, handlers[h].id,
                                         handlers[h].status))
    /\ NoCall
    /\ UNCHANGED <<users, storedTeachers>>

PutStatusUpdate(h) ==
    /\ handlers[h].route = "PUT /api/transfer-requests/:id/status"
    /\ handlers[h].await = "second"
    /\ IF handlers[h].teacher = 0
          \/ handlers[h].request.toTeacherId # handlers[h].teacher
       THEN /\ Respond(h, StatusResponse(403, handlers[h].user, handlers[h].id,
                                         handlers[h].status))
            /\ UNCHANGED transferRequests
       ELSE /\ transferRequests' =
                 updateTransferRequestStatus(handlers[h].id.v, handlers[h].status)
            /\ Respond(h, StatusResponse(200, handlers[h].user, handlers[h].id,
                                         handlers[h].status))
    /\ NoCall
    /\ UNCHANGED <<users, storedTeachers>>

\* Three registered users, of whom the first two have a teacher profile.
ThreeUsers == Append(TwoUsers, [id |-> 3, email |-> "c@example.org"])

StoredProfile(id, userId) ==
    [ id                         |-> id,
      userId                     |-> userId,
      isActive                   |-> TRUE,
      gradeLevel                 |-> "primary",
      currentDistrict            |-> D_patna,
      currentLatitude            |-> NoString,
      currentLongitude           |-> NoString,
      currentSchoolLatitude      |-> NoString,
      currentSchoolLongitude     |-> NoString,
      homeDistrict               |-> D_gaya,
      homeLatitude               |-> NoString,
      homeLongitude              |-> NoString,
      preferredDistricts         |-> <<D_gaya, D_patna>>,
      preferredLocationLatitude  |-> NoString,
      preferredLocationLongitude |-> NoString,
      maxDistance                |-> Num(100) ]

InitRequests ==
    /\ allTeachers = <<>>
    /\ subject = 0
    /\ matches = <<>>
    /\ pc = "idle"
    /\ users = ThreeUsers
    /\ storedTeachers = <<StoredProfile(1, 1), StoredProfile(2, 2)>>
    /\ transferRequests = <<>>
    /\ handlers = [h \in 1..MaxHandlers |-> Idle]
    /\ response = NoResponse

NextRequests ==
    \E h \in 1..MaxHandlers :
        \/ \E u \in 1..Len(users), toTeacherId \in RequestBodies :
               PostTransferRequest(h, u, toTeacherId)
        \/ PostTransferRequestResume(h)
        \/ PostTransferRequestCreate(h)
        \/ \E u \in 1..Len(users), id \in IdParams, status \in StatusBodies :
               PutStatus(h, u, id, status)
        \/ PutStatusResume(h)
        \/ PutStatusUpdate(h)

SpecRequests == InitRequests /\ [][NextRequests]_vars

-----------------------------------------------------------------------------
(* Properties of findMatches *)

\* C1: findMatches never returns a result whose teacher has the subject's
\* id, nor one whose teacher is inactive.
C1_NeverSelfNorInactive ==
    pc = "done" =>
        \A i \in 1..Len(matches) :
            /\ matches[i].teacher.id # currentTeacher.id
            /\ matches[i].teacher.isActive

\* A call whose roster holds an inactive teacher, or a second record with
\* the subject's id, that passes the perfect-match test.
C1_Witness ==
    /\ pc = "done"
    /\ \E j \in 1..Len(allTeachers) :
          /\ j # subject
          /\ allTeachers[j].id = currentTeacher.id \/ ~allTeachers[j].isActive
          /\ checkPerfectMatch(currentTeacher, allTeachers[j])

\* C3: an active candidate other than the subject is returned as 'perfect'
\* with score 100 exactly when the subject's preferred districts contain its
\* current district, its preferred districts contain the subject's current
\* district, and the grade levels are equal; district names are compared
\* character by character.
C3_PerfectIff ==
    pc = "done" =>
        \A j \in 1..Len(allTeachers) :
            LET c == allTeachers[j]
                s == currentTeacher
            IN  (c.id # s.id /\ c.isActive) =>
                    ( (\E i \in 1..Len(matches) :
                          /\ matches[i].teacher = c
                          /\ matches[i].matchType = "perfect"
                          /\ matches[i].score = Num(100))
                      <=>
                      ( /\ \E p \in 1..Len(s.preferredDistricts) :
                               s.preferredDistricts[p] = c.currentDistrict
                        /\ \E p \in 1..Len(c.preferredDistricts) :
                               c.preferredDistricts[p] = s.currentDistrict
                        /\ s.gradeLevel = c.gradeLevel ) )

\* A subject that prefers only 'gaya' and an active candidate of the same
\* grade in 'Gaya' that prefers the subject's district: not a perfect match.
C3_Witness ==
    /\ pc = "done"
    /\ currentTeacher.preferredDistricts = <<D_gaya>>
    /\ \E j \in 1..Len(allTeachers) :
          /\ allTeachers[j].id # currentTeacher.id
          /\ allTeachers[j].isActive
          /\ allTeachers[j].gradeLevel = currentTeacher.gradeLevel
          /\ allTeachers[j].currentDistrict = D_Gaya
          /\ \E p \in 1..Len(allTeachers[j].preferredDistricts) :
                allTeachers[j].preferredDistricts[p] = currentTeacher.currentDistrict
          /\ \A i \in 1..Len(matches) :
                matches[i].teacher = allTeachers[j] => matches[i].matchType # "perfect"

\* C4: for two active profiles of one roster with different ids, the first
\* is a 'perfect' result for the second exactly when the second is a
\* 'perfect' result for the first.
C4_PerfectSymmetry ==
    pc = "done" =>
        \A j \in 1..Len(allTeachers) :
            LET c == allTeachers[j]
                s == currentTeacher
            IN  (c.id # s.id /\ c.isActive /\ s.isActive) =>
                    \A back \in findMatches(c, allTeachers) :
                        (\E i \in 1..Len(matches) :
                            matches[i].teacher = c /\ matches[i].matchType = "perfect")
                        <=>
                        (\E i \in 1..Len(back) :
                            back[i].teacher = s /\ back[i].matchType = "perfect")

\* A call that returned an active candidate as 'perfect' for an active
\* subject whose preferences differ from the candidate's.
C4_Witness ==
    /\ pc = "done"
    /\ currentTeacher.isActive
    /\ \E i \in 1..Len(matches) :
          /\ matches[i].matchType = "perfect"
          /\ matches[i].teacher.preferredDistricts # currentTeacher.preferredDistricts
          /\ matches[i].teacher.currentDistrict # currentTeacher.currentDistrict

\* C5: an active candidate other than the subject that fails the
\* perfect-match test is returned as 'nearby' exactly when the grade levels
\* are equal, candidateToSubjectHome < homeDistance and
\* candidateToSubjectHome <= maxDistance; its distance is then
\* candidateToSubjectHome.  A candidate of another grade level is never
\* returned, and there is no nearby result when homeDistance is 0.
C5_NearbyIff ==
    pc = "done" =>
        \A j \in 1..Len(allTeachers) :
            LET c   == allTeachers[j]
                s   == currentTeacher
                c2h == calculateDistanceFromTeacherToHome(c, s)
                hd  == calculateDistanceToHome(s)
            IN  /\ (c.id # s.id /\ c.isActive /\ ~checkPerfectMatch(s, c)) =>
                      /\ (\E i \in 1..Len(matches) :
                              matches[i].teacher = c /\ matches[i].matchType = "nearby")
                         <=>
                         ( /\ s.gradeLevel = c.gradeLevel
                           /\ c2h.t = "num" /\ hd.t = "num"
                           /\ c2h.v < hd.v
                           /\ c2h.v <= 1000 * s.maxDistance.v )
                      /\ \A i \in 1..Len(matches) :
                             matches[i].teacher = c =>
                                 matches[i].matchType = "nearby" /\ matches[i].distance = c2h
                /\ s.gradeLevel # c.gradeLevel =>
                      \A i \in 1..Len(matches) : matches[i].teacher # c
                /\ hd = Num(0) =>
                      \A i \in 1..Len(matches) : matches[i].matchType # "nearby"

\* A call that returned a nearby candidate at a distance above 0.
C5_Witness ==
    /\ pc = "done"
    /\ \E i \in 1..Len(matches) :
          /\ matches[i].matchType = "nearby"
          /\ matches[i].distance.v > 0
          /\ matches[i].distance =
                 calculateDistanceFromTeacherToHome(matches[i].teacher, currentTeacher)

\* C6: a 'nearby' result at distance d has score max(0, 100 - floor(d/10))
\* (d in kilometres; 100 at d = 0, 91 at d = 95, 0 at d = 1000), and every
\* result has a score between 0 and 100.
C6_ScoreFormula ==
    pc = "done" =>
        /\ \A i \in 1..Len(matches) :
              /\ matches[i].score.t = "num"
              /\ matches[i].score.v \in 0..100
              /\ matches[i].matchType = "nearby" =>
                    /\ matches[i].distance.t = "num"
                    /\ LET tenths == matches[i].distance.v \div 10000
                       IN  matches[i].score.v = IF tenths >= 100 THEN 0 ELSE 100 - tenths
        /\ NearbyScore(Num(0)) = Num(100)
        /\ NearbyScore(Num(95000)) = Num(91)
        /\ NearbyScore(Num(1000000)) = Num(0)

\* A call that returned a nearby candidate more than 1000 km from the
\* subject's home.
C6_Witness ==
    /\ pc = "done"
    /\ \E i \in 1..Len(matches) :
          /\ matches[i].matchType = "nearby"
          /\ matches[i].distance.v > 1000000
          /\ matches[i].score = Num(0)

\* C2: in the returned list every 'perfect' result comes before every
\* 'nearby' result, and within a classification no result is followed by one
\* at a smaller distance.
C2_Ordered ==
    pc = "done" =>
        \A i, j \in 1..Len(matches) :
            i < j =>
                /\ ~(matches[i].matchType = "nearby" /\ matches[j].matchType = "perfect")
                /\ matches[i].matchType = matches[j].matchType =>
                      ~( /\ matches[i].distance.t = "num"
                         /\ matches[j].distance.t = "num"
                         /\ matches[j].distance.v < matches[i].distance.v )

\* C7: every returned distance is a number >= 0, and the distance of a
\* result whose leg has an endpoint with neither explicit coordinates nor a
\* district of the table is exactly 0.
C7_DistanceNumberAndZero ==
    pc = "done" =>
        \A i \in 1..Len(matches) :
            LET c == matches[i].teacher
                s == currentTeacher
                InTable(d) == replaceWhiteSpace(toLowerCase(d)) \in DistrictKeys
                Pair(lat, lng) == TruthyStr(lat) /\ TruthyStr(lng)
                CurrentKnown(t) ==
                    Pair(t.currentLatitude, t.currentLongitude) \/ InTable(t.currentDistrict)
                CandidateKnown(t) ==
                    \/ Pair(t.currentSchoolLatitude, t.currentSchoolLongitude)
                    \/ Pair(t.currentLatitude, t.currentLongitude)
                    \/ InTable(t.currentDistrict)
                SubjectHomeKnown(t) ==
                    \/ Pair(t.homeLatitude, t.homeLongitude)
                    \/ Pair(t.preferredLocationLatitude, t.preferredLocationLongitude)
                    \/ InTable(t.homeDistrict)
            IN  /\ matches[i].distance.t = "num"
                /\ matches[i].distance.v >= 0
                /\ ( /\ matches[i].matchType = "perfect"
                     /\ ~CurrentKnown(s) \/ ~CurrentKnown(c) ) =>
                       matches[i].distance = Num(0)
                /\ ( /\ matches[i].matchType = "nearby"
                     /\ ~CandidateKnown(c) \/ ~SubjectHomeKnown(s) ) =>
                       matches[i].distance = Num(0)

\* C8: getDistrictCoordinates looks its argument up under the lowercased,
\* underscore-joined key: a name whose key is in the table returns that
\* key's coordinate pair, and every other name returns null.
C8_DistrictLookup ==
    pc = "done" =>
        \A j \in 1..Len(allTeachers) :
            LET t     == allTeachers[j]
                names == {t.currentDistrict, t.homeDistrict}
                             \cup {t.preferredDistricts[p] : p \in 1..Len(t.preferredDistricts)}
            IN  \A name \in names :
                    LET key == replaceWhiteSpace(toLowerCase(name))
                        r   == getDistrictCoordinates(name)
                    IN  IF key \in DistrictKeys
                        THEN /\ r.kind = "coords"
                             /\ r = getDistrictCoordinates(key)
                             /\ \E row \in districtCoordinates :
                                   row[1] = key /\ r.lat = Num(row[2]) /\ r.lng = Num(row[3])
                        ELSE r.kind = "null"

\* C9: the distance of a perfect match is the distance between the two
\* parties' current points, each party contributing its explicit current
\* coordinates when it has them and its district's coordinates only when it
\* has not (stated for parties whose district lookup returns coordinates or
\* null).
C9_PerfectDistancePerParty ==
    pc = "done" =>
        \A i \in 1..Len(matches) :
            LET s == currentTeacher
                c == matches[i].teacher
                CurrentPoint(t) ==
                    IF TruthyStr(t.currentLatitude) /\ TruthyStr(t.currentLongitude)
                    THEN <<parseFloat(t.currentLatitude), parseFloat(t.currentLongitude)>>
                    ELSE PointOfCoords(getDistrictCoordinates(t.currentDistrict))
                ps == CurrentPoint(s)
                pt == CurrentPoint(c)
            IN  ( /\ matches[i].matchType = "perfect"
                  /\ getDistrictCoordinates(s.currentDistrict).kind # "inherited"
                  /\ getDistrictCoordinates(c.currentDistrict).kind # "inherited" ) =>
                    matches[i].distance =
                        IF IsNum(ps[1]) /\ IsNum(ps[2]) /\ IsNum(pt[1]) /\ IsNum(pt[2])
                        THEN haversineDistance(ps[1], ps[2], pt[1], pt[2])
                        ELSE Num(0)

\* C10: in the nearby test candidateToSubjectHome is the distance from the
\* candidate's point (school coordinates, else current coordinates, else the
\* district's) to the subject's home point (home coordinates, else
\* preferred-location coordinates, else the home district's), a later source
\* being used only when the earlier pair is not fully present; 0 when a
\* point has no source.
C10_CandidateToHomeChain ==
    pc = "done" =>
        \A j \in 1..Len(allTeachers) :
            LET s == currentTeacher
                c == allTeachers[j]
                Pair(lat, lng) == TruthyStr(lat) /\ TruthyStr(lng)
                DistrictPoint(d) ==
                    IF getDistrictCoordinates(d).kind = "coords"
                    THEN <<getDistrictCoordinates(d).lat, getDistrictCoordinates(d).lng>>
                    ELSE <<Undefined, Undefined>>
                from ==
                    IF Pair(c.currentSchoolLatitude, c.currentSchoolLongitude)
                    THEN <<parseFloat(c.currentSchoolLatitude), parseFloat(c.currentSchoolLongitude)>>
                    ELSE IF Pair(c.currentLatitude, c.currentLongitude)
                         THEN <<parseFloat(c.currentLatitude), parseFloat(c.currentLongitude)>>
                         ELSE DistrictPoint(c.currentDistrict)
                to ==
                    IF Pair(s.homeLatitude, s.homeLongitude)
                    THEN <<parseFloat(s.homeLatitude), parseFloat(s.homeLongitude)>>
                    ELSE IF Pair(s.preferredLocationLatitude, s.preferredLocationLongitude)
                         THEN <<parseFloat(s.preferredLocationLatitude),
                                parseFloat(s.preferredLocationLongitude)>>
                         ELSE DistrictPoint(s.homeDistrict)
            IN  ( /\ c.id # s.id /\ c.isActive
                  /\ ~checkPerfectMatch(s, c)
                  /\ c.gradeLevel = s.gradeLevel ) =>
                    calculateDistanceFromTeacherToHome(c, s) =
                        IF IsNum(from[1]) /\ IsNum(from[2]) /\ IsNum(to[1]) /\ IsNum(to[2])
                        THEN haversineDistance(from[1], from[2], to[1], to[2])
                        ELSE Num(0)

C12_MaxDistanceNumeric ==
    /\ pc = "done" => currentTeacher.maxDistance.t = "num"
    /\ ( /\ response.route = "POST /api/teachers"
         /\ response.code = 200
         /\ response.request.maxDistance = Undefined ) =>
           response.teacher.maxDistance = Num(100)

\* C13: on a roster with distinct ids each candidate appears at most once
\* in the result, as 'perfect' or as 'nearby'; a candidate that passes the
\* perfect-match test is not returned as 'nearby'; and the result is no
\* longer than the number of active candidates other than the subject.
C13_AtMostOnce ==
    ( /\ pc = "done"
      /\ \A i, j \in 1..Len(allTeachers) :
             i # j => allTeachers[i].id # allTeachers[j].id ) =>
        /\ \A j \in 1..Len(allTeachers) :
               Cardinality({i \in 1..Len(matches) :
                               matches[i].teacher.id = allTeachers[j].id}) <= 1
        /\ \A i \in 1..Len(matches) :
               /\ matches[i].matchType \in {"perfect", "nearby"}
               /\ matches[i].matchType = "nearby" =>
                      ~checkPerfectMatch(currentTeacher, matches[i].teacher)
        /\ Len(matches) <= Cardinality({j \in 1..Len(allTeachers) :
                                           j # subject /\ allTeachers[j].isActive})

\* A call on a roster with distinct ids that returned, as 'perfect', a
\* candidate that also passes the nearby test.
C13_Witness ==
    /\ pc = "done"
    /\ \A i, j \in 1..Len(allTeachers) : i # j => allTeachers[i].id # allTeachers[j].id
    /\ \E i \in 1..Len(matches) :
          /\ matches[i].matchType = "perfect"
          /\ checkNearbyMatch(currentTeacher, matches[i].teacher).found

\* C14: an active candidate of the subject's grade that is not a perfect
\* match and has no school coordinates, no current coordinates and a current
\* district that is not in the table is at candidateToSubjectHome = 0, and is
\* returned as 'nearby' with distance 0 and score 100 whenever the subject's
\* homeDistance is above 0 and its maxDistance is at least 0.
C14_ZeroDistanceNearby ==
    pc = "done" =>
        \A j \in 1..Len(allTeachers) :
            LET c == allTeachers[j]
                s == currentTeacher
                None(lat, lng) == ~TruthyStr(lat) /\ ~TruthyStr(lng)
            IN  ( /\ c.id # s.id /\ c.isActive
                  /\ c.gradeLevel = s.gradeLevel
                  /\ ~checkPerfectMatch(s, c)
                  /\ None(c.currentSchoolLatitude, c.currentSchoolLongitude)
                  /\ None(c.currentLatitude, c.currentLongitude)
                  /\ replaceWhiteSpace(toLowerCase(c.currentDistrict)) \notin DistrictKeys
                  /\ calculateDistanceToHome(s).t = "num"
                  /\ calculateDistanceToHome(s).v > 0
                  /\ s.maxDistance.t = "num"
                  /\ s.maxDistance.v >= 0 ) =>
                    /\ calculateDistanceFromTeacherToHome(c, s) = Num(0)
                    /\ \E i \in 1..Len(matches) :
                           /\ matches[i].teacher = c
                           /\ matches[i].matchType = "nearby"
                           /\ matches[i].distance = Num(0)
                           /\ matches[i].score = Num(100)

\* A call that returned, as 'nearby' at distance 0, a candidate located only
\* by the district name 'nowhere', for a subject 89 km from home.
C14_Witness ==
    /\ pc = "done"
    /\ calculateDistanceToHome(currentTeacher).t = "num"
    /\ calculateDistanceToHome(currentTeacher).v > 0
    /\ \E i \in 1..Len(matches) :
          /\ matches[i].matchType = "nearby"
          /\ matches[i].distance = Num(0)
          /\ matches[i].teacher.currentDistrict = D_nowhere
          /\ ~TruthyStr(matches[i].teacher.currentSchoolLatitude)
          /\ ~TruthyStr(matches[i].teacher.currentLatitude)

C16_UniqueEmails ==
    \A i, j \in 1..Len(users) : i # j => users[i].email # users[j].email

-----------------------------------------------------------------------------
(* Properties of the transfer-request routes *)

Decided == {"accepted", "rejected"}

Entitled(r) ==
    /\ r.status \in Decided
    /\ getTransferRequestById(r.id).id # 0
    /\ getTeacherByUserId(r.user).id # 0
    /\ getTeacherByUserId(r.user).id = getTransferRequestById(r.id).toTeacherId

\* C18: a stored request changes only in the step that answers 200 to a
\* PUT /api/transfer-requests/:id/status for that request, made with status
\* 'accepted' or 'rejected' by the user whose teacher profile is the
\* request's toTeacherId, and then only its status changes, to the status
\* sent; a call that is not entitled (other user, no profile, no such
\* request, other status) is answered 400, 403 or 404 and leaves every
\* stored request as it was.
C18_OnlyRecipientDecides ==
    [][/\ \A i \in 1..Len(transferRequests) :
             transferRequests'[i] # transferRequests[i]
                => /\ response'.route = "PUT /api/transfer-requests/:id/status"
                   /\ response'.code = 200
                   /\ response'.id = Num(i)
                   /\ Entitled(response')
                   /\ transferRequests'[i] =
                         [transferRequests[i] EXCEPT !.status = response'.status]
       /\ (/\ response'.route = "PUT /api/transfer-requests/:id/status"
           /\ ~Entitled(response'))
             => /\ response'.code \in {400, 403, 404}
                /\ transferRequests' = transferRequests
       /\ (/\ response'.route = "PUT /api/transfer-requests/:id/status"
           /\ response'.status \notin Decided)
             => response'.code = 400]_vars

\* C18 witness: the recipient's PUT has been answered 200 and the request has
\* the status sent, and with it stands a request nobody has decided.
C18_Witness ==
    /\ response.route = "PUT /api/transfer-requests/:id/status"
    /\ response.code = 200
    /\ Entitled(response)
    /\ getTransferRequestById(response.id).status = response.status
    /\ \E i \in 1..Len(transferRequests) : transferRequests[i].status = "pending"

\* C19: no two stored requests with status 'pending' have the same
\* fromTeacherId and the same toTeacherId.
C19_OnePendingPerPair ==
    \A i, j \in 1..Len(transferRequests) :
        (/\ i # j
         /\ transferRequests[i].status = "pending"
         /\ transferRequests[j].status = "pending"
         /\ transferRequests[i].fromTeacherId = transferRequests[j].fromTeacherId)
            => transferRequests[i].toTeacherId # transferRequests[j].toTeacherId

-----------------------------------------------------------------------------
(* The home point of the nearby test *)

\* calculateDistanceToHome, lines 194-209: the point <<lat, lng>> it passes
\* to haversineDistance as the home end; the explicit home pair only when the
\* current pair is present too, else the home district's coordinates.
HomeOfDistanceToHome(teacher) ==
    IF /\ TruthyStr(teacher.currentLatitude) /\ TruthyStr(teacher.currentLongitude)
       /\ TruthyStr(teacher.homeLatitude) /\ TruthyStr(teacher.homeLongitude)
    THEN <<parseFloat(teacher.homeLatitude), parseFloat(teacher.homeLongitude)>>
    ELSE PointOfCoords(getDistrictCoordinates(teacher.homeDistrict))

\* C20: for the subject of a findMatches call with a candidate to test, the
\* home point homeDistance is measured to (calculateDistanceToHome) is the
\* home point candidateToSubjectHome is measured to
\* (calculateDistanceFromTeacherToHome).
C20_SameHomePoint ==
    (pc = "done" /\ Len(allTeachers) > 1)
        => HomeOfDistanceToHome(currentTeacher) = HomeLocation(currentTeacher)

====
